---- MODULE Spec2Model ----
(***************************************************************************)
(* Update scripts of HM64Updatescripts: five scripts that query a remote   *)
(* release source, compare its identifier with version.json, download the  *)
(* build for the running OS into downloads/, unpack it over the script     *)
(* directory and record what was installed.                                *)
(*                                                                         *)
(*   ship2       scripts/2ship-Updatescript.py                             *)
(*   sk          scripts/Spaghettikart-Updatescript.py                     *)
(*   sohNightly  scripts/SoH-Updatescript-Nightly.py                       *)
(*   skNightly   scripts/Spaghettikart-Updatescript-Nightly.py             *)
(*   lynks       scripts/SoH-Updatescript-Lynks.py                         *)
(*                                                                         *)
(* Strings are TLA+ strings handled character by character (Len, SubSeq,   *)
(* \o), so str.lower(), str.endswith(), the "in" substring test and the    *)
(* two regular expressions are computed, not assumed.                      *)
(***************************************************************************)
EXTENDS Integers, Sequences, FiniteSets, TLC

(***************************************************************************)
(* Bounds of the model.                                                    *)
(***************************************************************************)
\* runs of the script in one behaviour
MaxRuns == 2
\* times the remote source publishes something new in one behaviour
MaxAdvance == 1

(***************************************************************************)
(* Character-level string helpers.                                         *)
(***************************************************************************)
At(s, i) == IF 1 <= i /\ i <= Len(s) THEN SubSeq(s, i, i) ELSE ""

StartsAt(s, i, pat) ==
    /\ i >= 1
    /\ i + Len(pat) - 1 <= Len(s)
    /\ SubSeq(s, i, i + Len(pat) - 1) = pat

\* str.endswith
EndsWith(s, suf) ==
    /\ Len(suf) <= Len(s)
    /\ StartsAt(s, Len(s) - Len(suf) + 1, suf)

\* the Python test `pat in s`
Contains(s, pat) == \E i \in 1..(Len(s) + 1) : StartsAt(s, i, pat)

LowerChar(c) ==
    CASE c = "A" -> "a" [] c = "B" -> "b" [] c = "C" -> "c" [] c = "D" -> "d"
      [] c = "E" -> "e" [] c = "F" -> "f" [] c = "G" -> "g" [] c = "H" -> "h"
      [] c = "I" -> "i" [] c = "J" -> "j" [] c = "K" -> "k" [] c = "L" -> "l"
      [] c = "M" -> "m" [] c = "N" -> "n" [] c = "O" -> "o" [] c = "P" -> "p"
      [] c = "Q" -> "q" [] c = "R" -> "r" [] c = "S" -> "s" [] c = "T" -> "t"
      [] c = "U" -> "u" [] c = "V" -> "v" [] c = "W" -> "w" [] c = "X" -> "x"
      [] c = "Y" -> "y" [] c = "Z" -> "z" [] OTHER -> c

\* str.lower over s[a..b], by halves
RECURSIVE LowerRange(_, _, _)
LowerRange(s, a, b) ==
    IF a > b THEN ""
    ELSE IF a = b THEN LowerChar(At(s, a))
    ELSE LET mid == (a + b) \div 2
         IN LowerRange(s, a, mid) \o LowerRange(s, mid + 1, b)

\* str.lower
Lower(s) == LowerRange(s, 1, Len(s))

\* the regex class \s, and str.strip()'s default set
IsSpace(c) == c \in {" ", "\n", "\t", "\r"}

Min(S) == CHOOSE x \in S : \A y \in S : x <= y
Max(S) == CHOOSE x \in S : \A y \in S : x >= y

\* first index >= i whose character is in stop, or Len(s) + 1 (i when beyond)
ScanTo(s, i, stop) ==
    LET hits == {j \in i..Len(s) : At(s, j) \in stop}
    IN IF i > Len(s) THEN i
       ELSE IF hits = {} THEN Len(s) + 1
       ELSE Min(hits)

\* first index >= i that is not white space, or Len(s) + 1 (the regex \s*)
SkipSpace(s, i) ==
    LET hits == {j \in i..Len(s) : ~IsSpace(At(s, j))}
    IN IF i > Len(s) THEN i
       ELSE IF hits = {} THEN Len(s) + 1
       ELSE Min(hits)

\* str.strip
Strip(s) ==
    LET keep == {j \in 1..Len(s) : ~IsSpace(At(s, j))}
    IN IF keep = {} THEN "" ELSE SubSeq(s, Min(keep), Max(keep))

(***************************************************************************)
(* Python values.                                                          *)
(***************************************************************************)
\* Python's None where a string is expected
None == "<None>"
\* the result of an operator whose Python function raised
Raised == "<raised>"
\* the empty dict
EmptyDict == [k \in {} |-> ""]

(***************************************************************************)
(* platform.system().lower() -> the per-script OS word.                    *)
(***************************************************************************)
\* 2ship-Updatescript.py
get_os_target_word(sys) ==
    CASE sys = "windows" -> "Win64"
      [] sys = "linux" -> "Linux"
      [] sys = "darwin" -> "Mac"
      [] OTHER -> Raised

\* Spaghettikart-Updatescript.py: darwin raises too ("no macOS build")
get_os_tag(sys) ==
    CASE sys = "windows" -> "windows"
      [] sys = "linux" -> "linux-old"
      [] OTHER -> Raised

\* SoH-Updatescript-Nightly.py
get_os_zip_name_soh(sys) ==
    CASE sys = "windows" -> "soh-windows.zip"
      [] sys = "linux" -> "soh-linux.zip"
      [] sys = "darwin" -> "soh-mac.zip"
      [] OTHER -> Raised

\* Spaghettikart-Updatescript-Nightly.py
get_os_zip_name_sk(sys) ==
    CASE sys = "linux" -> "spaghetti-linux-x64.zip"
      [] sys = "windows" -> "spaghetti-windows.zip"
      [] sys = "darwin" -> "spaghetti-mac-intel-x64.zip"
      [] OTHER -> Raised

\* SoH-Updatescript-Lynks.py
ARTIFACT_OS_MAP ==
    [windows |-> "soh-windows.zip", linux |-> "soh-linux.zip", darwin |-> "soh-mac.zip"]

get_os_key(sys) == IF sys \in DOMAIN ARTIFACT_OS_MAP THEN sys ELSE Raised

(***************************************************************************)
(* Asset selection of the tagged-release scripts.  assets is the release's *)
(* "assets" list, a sequence of [name, url]; the result is the selected    *)
(* asset, or Raised when no name matches.                                  *)
(***************************************************************************)
\* CandidatesShip2 with the substring test in place of endswith
CandidatesShip2_Substring(assets, target_word) ==
    LET Test(a) == Contains(Lower(a.name), "-" \o target_word \o ".zip")
    IN SelectSeq(assets, Test)

\* 2ship: a["name"].lower().endswith(f"-{target_word}.zip")
IsCandidateShip2(name, target_word) ==
    EndsWith(Lower(name), "-" \o target_word \o ".zip")

CandidatesShip2(assets, target_word) ==
    LET Test(a) == IsCandidateShip2(a.name, target_word)
    IN SelectSeq(assets, Test)

\* Spaghettikart: os_tag in name.lower() and name.lower().endswith(".zip")
IsCandidateSk(name, os_tag) ==
    Contains(Lower(name), os_tag) /\ EndsWith(Lower(name), ".zip")

CandidatesSk(assets, os_tag) ==
    LET Test(a) == IsCandidateSk(a.name, os_tag)
    IN SelectSeq(assets, Test)

(***************************************************************************)
(* extract_markdown_links_from_body: the links dict, a function from the   *)
(* lower-cased link text to the url.                                       *)
(***************************************************************************)
SohNames == {"soh-windows.zip", "soh-linux.zip", "soh-mac.zip"}

DictSet(d, k, v) == [x \in DOMAIN d \cup {k} |-> IF x = k THEN v ELSE d[x]]

\* one attempt of  \[([^\]]+)\]\(\s*(https?://[^\s)]+)\s*\)  at index i
MdMatchAt(body, i) ==
    LET close == ScanTo(body, i + 1, {"]"})
        urlAt == SkipSpace(body, close + 2)
        low   == Lower(SubSeq(body, urlAt, IF urlAt + 7 <= Len(body) THEN urlAt + 7 ELSE Len(body)))
        rest  == IF StartsAt(low, 1, "https://") THEN urlAt + 8
                 ELSE IF StartsAt(low, 1, "http://") THEN urlAt + 7
                 ELSE 0
        urlEnd == ScanTo(body, rest, {" ", "\n", "\t", "\r", ")"})
        paren == SkipSpace(body, urlEnd)
        ok == /\ At(body, i) = "["
              /\ close > i + 1
              /\ At(body, close) = "]"
              /\ At(body, close + 1) = "("
              /\ urlAt <= Len(body)
              /\ rest > 0
              /\ urlEnd > rest
              /\ At(body, paren) = ")"
    IN IF ok
       THEN [ok |-> TRUE, text |-> SubSeq(body, i + 1, close - 1),
             url |-> SubSeq(body, urlAt, urlEnd - 1), end |-> paren]
       ELSE [ok |-> FALSE, text |-> "", url |-> "", end |-> i]

\* pattern.finditer(body): matches left to right, never overlapping
RECURSIVE MdScan(_, _, _)
MdScan(body, i, links) ==
    LET starts == {j \in i..Len(body) : At(body, j) = "[" /\ MdMatchAt(body, j).ok}
    IN IF starts = {} THEN links
       ELSE LET m == MdMatchAt(body, Min(starts))
                text == Strip(m.text)
                url  == Strip(m.url)
            IN IF Lower(text) \in SohNames
               THEN MdScan(body, m.end + 1, DictSet(links, Lower(text), url))
               ELSE MdScan(body, m.end + 1, links)

extract_markdown_links_from_body(body) == MdScan(body, 1, EmptyDict)

(***************************************************************************)
(* extract_nightly_links_from_html.                                        *)
(***************************************************************************)
\* [\s\S]{0,200}? of the pattern
Window == 200

\* href=["'](https://nightly\.link/[^\s"'>]+)["'] at index p of html, whose
\* lower-cased copy is low
HrefAt(html, low, p) ==
    LET q == p + 5
        u == q + 1
        rest == u + Len("https://nightly.link/")
        urlEnd == ScanTo(html, rest, {" ", "\n", "\t", "\r", "\"", "'", ">"})
        ok == /\ StartsAt(low, p, "href=")
              /\ At(html, q) \in {"\"", "'"}
              /\ StartsAt(low, u, "https://nightly.link/")
              /\ urlEnd > rest
              /\ At(html, urlEnd) \in {"\"", "'"}
    IN IF ok
       THEN [ok |-> TRUE, url |-> SubSeq(html, u, urlEnd - 1), end |-> urlEnd]
       ELSE [ok |-> FALSE, url |-> "", end |-> p]

\* the lazy gap: the nearest href at distance 0..Window after index e
FirstHref(html, low, e) ==
    LET gaps == {g \in 0..Window : e + g <= Len(html) /\ HrefAt(html, low, e + g).ok}
    IN IF gaps = {} THEN [ok |-> FALSE, url |-> "", end |-> e]
       ELSE HrefAt(html, low, e + Min(gaps))

\* the file name the pattern's first group matches at index i, or ""
NameAt(low, i) ==
    IF StartsAt(low, i, "soh-windows.zip") THEN "soh-windows.zip"
    ELSE IF StartsAt(low, i, "soh-linux.zip") THEN "soh-linux.zip"
    ELSE IF StartsAt(low, i, "soh-mac.zip") THEN "soh-mac.zip"
    ELSE ""

\* pattern.finditer(html): the next match starts at the first index >= i
\* where a file name is followed by an href within the window
RECURSIVE HtmlScan(_, _, _, _)
HtmlScan(html, low, i, links) ==
    LET starts == {j \in i..Len(html) :
                     NameAt(low, j) # ""
                     /\ FirstHref(html, low, j + Len(NameAt(low, j))).ok}
    IN IF starts = {} THEN links
       ELSE LET j == Min(starts)
                name == NameAt(low, j)
                h == FirstHref(html, low, j + Len(name))
            IN HtmlScan(html, low, h.end + 1, DictSet(links, name, Strip(h.url)))

extract_nightly_links_from_html(html) == HtmlScan(html, Lower(html), 1, EmptyDict)

(***************************************************************************)
(* Configuration constants of the scripts.                                 *)
(***************************************************************************)
Variants == {"ship2", "sk", "sohNightly", "skNightly", "lynks"}
Tagged == {"ship2", "sk"}
Nightly == {"sohNightly", "skNightly"}

REPO(v) ==
    CASE v = "ship2" -> "HarbourMasters/2ship2harkinian"
      [] v = "sk" -> "HarbourMasters/Spaghettikart"
      [] v = "sohNightly" -> "HarbourMasters/Shipwright"
      [] v = "skNightly" -> "HarbourMasters/SpaghettiKart"
      [] OTHER -> "TheLynk/Shipwright"

PR_NUMBER == 11

NIGHTLY_BASE(v) ==
    IF v = "sohNightly"
    THEN "https://nightly.link/" \o REPO(v) \o "/workflows/generate-builds/develop"
    ELSE "https://nightly.link/" \o REPO(v) \o "/workflows/main/main"

\* save_local_version with the pull-request script writing "url", a key
\* its up-to-date test does not read
save_local_version_WrongKey(v, id) ==
    CASE v \in Tagged -> [installed_version |-> id, repo |-> REPO(v)]
      [] v \in Nightly -> [latest_commit |-> id]
      [] OTHER -> [url |-> id, repo |-> REPO(v), pr_number |-> PR_NUMBER]

\* the dict each script's save_local_version dumps to version.json
save_local_version(v, id) ==
    CASE v \in Tagged -> [installed_version |-> id, repo |-> REPO(v)]
      [] v \in Nightly -> [latest_commit |-> id]
      [] OTHER -> [download_url |-> id, repo |-> REPO(v), pr_number |-> PR_NUMBER]

\* the key under which each script reads the identifier back
IdKey(v) ==
    CASE v \in Tagged -> "installed_version"
      [] v \in Nightly -> "latest_commit"
      [] OTHER -> "download_url"

\* dict.get(key): None when the key is missing
DictGet(d, k) == IF k \in DOMAIN d THEN d[k] ELSE None

(***************************************************************************)
(* The environment: platforms, the remote source, what is on disk.         *)
(***************************************************************************)
Platforms == {"windows", "linux", "darwin", "freebsd"}

\* the n-th tag or commit SHA the remote source publishes
Ident(n) == "v" \o ToString(n)

\* asset names of a release, as the remote lists them
AssetLists ==
    { <<>>,
      <<"pkg-Win64.zip", "pkg-Linux.zip", "pkg-Mac.zip">>,
      <<"pkg-linux.zip", "pkg-Linux.zip", "pkg-Linux.zip.sig">>,
      <<"pkg-Linux.zip", "pkg-windows.zip", "pkg-Linux-Old.zip">> }

\* a release asset's browser_download_url: one URL per release and name
AssetUrl(tag, name) == "https://github.com/releases/download/" \o tag \o "/" \o name

Pad50 == ".................................................."
Pad201 == Pad50 \o Pad50 \o Pad50 \o Pad50 \o "."

UrlL == "https://nightly.link/x/y/soh-linux.zip"
UrlL2 == "https://nightly.link/x/y2/soh-linux.zip"
UrlW == "https://nightly.link/x/y/soh-windows.zip"
UrlM == "https://nightly.link/a/b"

\* states of the pull request: its description (body) and its rendered page
PrPages ==
    << [body |-> "Builds: [soh-linux.zip](" \o UrlL \o ") [SOH-Windows.zip]( " \o UrlW
                 \o " ) [soh-mac.zip](" \o UrlM \o ")",
        html |-> "<html>soh-linux.zip</html>"],
       [body |-> "Builds: [soh-linux.zip](" \o UrlL2 \o ") [soh-windows.zip](" \o UrlW
                 \o ") [soh-mac.zip](" \o UrlM \o ")",
        html |-> "<html></html>"],
       [body |-> "",
        html |-> "<a>soh-mac.zip</a> <a href=\"" \o UrlM \o "\">dl</a> soh-linux.zip"
                 \o Pad50 \o "<a href='https://example.com/x'></a> href='" \o UrlL \o "'"],
       [body |-> "see [the docs](https://example.com/docs)",
        html |-> "soh-windows.zip soh-linux.zip <a href=\"" \o UrlL \o "\">"],
       [body |-> "[soh-mac.zip](" \o UrlM \o ")",
        html |-> "soh-linux.zip href=\"" \o UrlL \o "\""],
       [body |-> "no builds yet",
        html |-> "soh-linux.zip" \o Pad201 \o "href=\"" \o UrlL \o "\""] >>

NoDict == [kind |-> "none", data |-> EmptyDict]
Dict(d) == [kind |-> "dict", data |-> d]
NoAsset == [name |-> "", url |-> ""]
NoFiles == [exists |-> FALSE, files |-> {}]
NoOutcome == [kind |-> "RUNNING", error |-> ""]
NoPrev == [kind |-> "none", id |-> None, versionFile |-> [kind |-> "absent", data |-> EmptyDict]]

VARIABLES
    variant,        \* which script this installation runs
    platform,       \* platform.system().lower()
    versionFile,    \* version.json: absent, unparseable, or a JSON object
    staging,        \* the downloads directory and the files in it
    installedBuild, \* the build whose files were last extracted into SCRIPT_DIR
    remoteHead,     \* the remote source: number of the newest release, commit or page
    remoteAssets,   \* the remote source: asset names of the newest release
    advances,       \* how often the remote source has published so far
    pc,             \* where the running script is
    local,          \* load_local_version()'s result
    installed,      \* local's identifier (None without a record)
    latest,         \* the identifier the remote query returned
    assets,         \* release["assets"]
    asset,          \* the selected asset: its file name and download URL
    links,          \* lynks: the name -> url dict
    body,           \* lynks: the description fetch_pr_body returned
    html,           \* lynks: the page fetch_pr_html returned
    outcome,        \* how the run ended
    log,            \* the steps the current run has performed, in order
    runs,           \* runs started so far
    atStart,        \* version.json as the current run found it
    prev            \* how the previous run ended

vars == << variant, platform, versionFile, staging, installedBuild, remoteHead,
           remoteAssets, advances, pc, local, installed, latest, assets, asset,
           links, body, html, outcome, log, runs, atStart, prev >>

env == << variant, platform, remoteHead, remoteAssets, advances >>
history == << runs, atStart, prev >>
pages == << body, html >>

\* version.json files a script can find: none, an unparseable one, an empty
\* object, another script's record, or its own record for an identifier
VersionFiles(v) ==
    LET ids == IF v = "lynks" THEN {UrlL, "https://nightly.link/x/y0/soh-linux.zip"}
               ELSE {Ident(0), Ident(1)}
        other == IF v \in Nightly THEN "ship2" ELSE "sohNightly"
    IN {[kind |-> "absent", data |-> EmptyDict],
        [kind |-> "malformed", data |-> EmptyDict],
        [kind |-> "json", data |-> EmptyDict],
        [kind |-> "json", data |-> save_local_version(other, Ident(1))]}
       \cup {[kind |-> "json", data |-> save_local_version(v, id)] : id \in ids}

StagingDirs ==
    {NoFiles,
     [exists |-> TRUE, files |-> {}],
     [exists |-> TRUE, files |-> {[name |-> "stale.zip", build |-> None, whole |-> FALSE]}]}

FirstPc(v) == IF v = "lynks" THEN "os" ELSE "load"

Init ==
    /\ variant \in Variants
    /\ platform \in Platforms
    /\ versionFile \in VersionFiles(variant)
    /\ staging \in StagingDirs
    /\ installedBuild =
         IF versionFile.kind = "json" /\ IdKey(variant) \in DOMAIN versionFile.data
         THEN versionFile.data[IdKey(variant)] ELSE None
    /\ remoteHead \in (IF variant = "lynks" THEN 1..Len(PrPages)
                       ELSE IF variant = "sk" THEN {0, 1} ELSE {1})
    /\ remoteAssets \in (IF variant \in Tagged THEN AssetLists ELSE {<<>>})
    /\ advances = 0
    /\ pc = FirstPc(variant)
    /\ local = NoDict
    /\ installed = None
    /\ latest = None
    /\ assets = <<>>
    /\ asset = NoAsset
    /\ links = EmptyDict
    /\ body = ""
    /\ html = ""
    /\ outcome = NoOutcome
    /\ log = <<>>
    /\ runs = 1
    /\ atStart = versionFile
    /\ prev = NoPrev

(***************************************************************************)
(* Steps of a run.  Every step appends itself to log; a raised exception   *)
(* ends the run (no script catches one, except the two handlers of lynks). *)
(***************************************************************************)
Step(op, ok) == log' = Append(log, [op |-> op, ok |-> ok])

\* an uncaught exception: the process exits, nothing else is touched
Raise(err) ==
    /\ pc' = "done"
    /\ outcome' = [kind |-> "FAILED", error |-> err]

Return(kind) ==
    /\ pc' = "done"
    /\ outcome' = [kind |-> kind, error |-> ""]

\* os.makedirs(DOWNLOAD_DIR, exist_ok=True)
makedirs(dir) == [dir EXCEPT !.exists = TRUE]

\* open(filepath, "wb") and the chunks written to it
write_file(dir, f) ==
    [dir EXCEPT !.files = {g \in dir.files : g.name # f.name} \cup {f}]

\* shutil.rmtree(DOWNLOAD_DIR) if it exists
rmtree(dir) == NoFiles

\* lynks: os_key = get_os_key(), before anything else
GetOsKey ==
    /\ pc = "os"
    /\ variant = "lynks"
    /\ IF get_os_key(platform) = Raised
       THEN /\ Step("os", FALSE)
            /\ Raise("UnsupportedOS")
            /\ UNCHANGED asset
       ELSE /\ Step("os", TRUE)
            /\ asset' = [name |-> Lower(ARTIFACT_OS_MAP[get_os_key(platform)]), url |-> ""]
            /\ pc' = "load"
            /\ UNCHANGED outcome
    /\ UNCHANGED << env, history, pages, versionFile, staging, installedBuild, local,
                    installed, latest, assets, links >>

\* local = load_local_version(); installed = local[<key>] if local else None
load_local_version ==
    /\ pc = "load"
    /\ IF versionFile.kind = "malformed"
       THEN /\ Step("load", FALSE)
            /\ Raise("MalformedState")
            /\ UNCHANGED << local, installed >>
       ELSE LET d == IF versionFile.kind = "absent" THEN NoDict ELSE Dict(versionFile.data)
                truthy == d.kind = "dict" /\ d.data # EmptyDict
            IN IF variant # "lynks" /\ truthy /\ IdKey(variant) \notin DOMAIN d.data
               THEN /\ Step("load", FALSE)
                    /\ Raise("KeyError")
                    /\ UNCHANGED << local, installed >>
               ELSE /\ Step("load", TRUE)
                    /\ local' = d
                    /\ installed' = IF variant # "lynks" /\ truthy
                                    THEN d.data[IdKey(variant)] ELSE None
                    /\ pc' = IF variant = "lynks" THEN "body" ELSE "query"
                    /\ UNCHANGED outcome
    /\ UNCHANGED << env, history, pages, versionFile, staging, installedBuild, latest,
                    assets, asset, links >>

\* get_latest_release / get_latest_any_release / get_latest_commit_sha
QueryRemote ==
    /\ pc = "query"
    /\ variant # "lynks"
    /\ \E status_ok \in BOOLEAN :
         IF ~status_ok
         THEN /\ Step("query", FALSE)
              /\ Raise("Transport")
              /\ UNCHANGED << latest, assets >>
         ELSE IF variant = "sk" /\ remoteHead = 0
         THEN \* the call succeeded; `if not releases: raise`
              /\ log' = log \o << [op |-> "query", ok |-> TRUE],
                                  [op |-> "releases", ok |-> FALSE] >>
              /\ Raise("NoReleases")
              /\ UNCHANGED << latest, assets >>
         ELSE /\ Step("query", TRUE)
              /\ latest' = Ident(remoteHead)
              /\ assets' = IF variant \in Tagged
                           THEN [i \in 1..Len(remoteAssets) |->
                                   [name |-> remoteAssets[i],
                                    url |-> AssetUrl(Ident(remoteHead), remoteAssets[i])]]
                           ELSE <<>>
              /\ pc' = "check"
              /\ UNCHANGED outcome
    /\ UNCHANGED << env, history, pages, versionFile, staging, installedBuild, local,
                    installed, asset, links >>

\* the identifier the run compares with the record
RemoteIdentifier == IF variant = "lynks" THEN asset.url ELSE latest

\* UpToDate with the pull-request script reading the tagged scripts' key
UpToDate_WrongKey ==
    IF variant = "lynks"
    THEN /\ local.kind = "dict"
         /\ local.data # EmptyDict
         /\ DictGet(local.data, "installed_version") = asset.url
    ELSE installed = latest

\* the up-to-date test of each script
UpToDate ==
    IF variant = "lynks"
    THEN /\ local.kind = "dict"
         /\ local.data # EmptyDict
         /\ DictGet(local.data, "download_url") = asset.url
    ELSE installed = latest

\* whether the script calls clear_downloads() before its up-to-date return
ClearsWhenUpToDate == variant \in Nightly

\* Compare without the return of the up-to-date branch
Compare_NoReturn ==
    /\ pc = "check"
    /\ Step("check", UpToDate)
    /\ pc' = IF variant = "lynks" THEN "download" ELSE "resolve"
    /\ UNCHANGED << env, history, pages, versionFile, staging, outcome, installedBuild,
                    local, installed, latest, assets, asset, links >>

\* if installed == latest: ... return
Compare ==
    /\ pc = "check"
    /\ IF UpToDate
       THEN /\ Step("check", TRUE)
            /\ staging' = IF ClearsWhenUpToDate THEN rmtree(staging) ELSE staging
            /\ Return("UP_TO_DATE")
       ELSE /\ Step("check", FALSE)
            /\ pc' = IF variant = "lynks" THEN "download" ELSE "resolve"
            /\ UNCHANGED << staging, outcome >>
    /\ UNCHANGED << env, history, pages, versionFile, installedBuild, local, installed,
                    latest, assets, asset, links >>

\* the OS word of the script, or Raised
OsWord ==
    CASE variant = "ship2" -> get_os_target_word(platform)
      [] variant = "sk" -> get_os_tag(platform)
      [] variant = "sohNightly" -> get_os_zip_name_soh(platform)
      [] variant = "skNightly" -> get_os_zip_name_sk(platform)
      [] OTHER -> get_os_key(platform)

\* the candidate assets for OS word w, in the order the script tries them
Candidates(w) ==
    CASE variant = "ship2" -> CandidatesShip2(assets, Lower(w))
      [] variant = "sk" -> CandidatesSk(assets, w)
      [] OTHER -> << [name |-> w, url |-> NIGHTLY_BASE(variant) \o "/" \o w] >>

\* tagged and nightly scripts: the OS word, then asset = candidates[0]
ResolveAsset ==
    /\ pc = "resolve"
    /\ variant # "lynks"
    /\ IF OsWord = Raised
       THEN /\ Step("resolve", FALSE)
            /\ Raise("UnsupportedOS")
            /\ UNCHANGED asset
       ELSE IF Candidates(OsWord) = <<>>
       THEN /\ Step("resolve", FALSE)
            /\ Raise("AssetNotFound")
            /\ UNCHANGED asset
       ELSE /\ Step("resolve", TRUE)
            /\ asset' = Candidates(OsWord)[1]
            /\ pc' = "download"
            /\ UNCHANGED outcome
    /\ UNCHANGED << env, history, pages, versionFile, staging, installedBuild, local,
                    installed, latest, assets, links >>

\* lynks: body = fetch_pr_body(...) inside try/except, then the markdown links
FetchBody ==
    /\ pc = "body"
    /\ \E status_ok \in BOOLEAN :
         LET got == IF status_ok THEN PrPages[remoteHead].body ELSE ""
             found == IF got # "" THEN extract_markdown_links_from_body(got)
                      ELSE EmptyDict
         IN /\ Step("body", status_ok)
            /\ body' = got
            /\ links' = found
            /\ pc' = IF found = EmptyDict THEN "page" ELSE "select"
    /\ UNCHANGED << env, history, html, versionFile, staging, installedBuild, local,
                    installed, latest, assets, asset, outcome >>

\* lynks: html = fetch_pr_html(...) inside try/except, then the scraped links
FetchHtml ==
    /\ pc = "page"
    /\ \E status_ok \in BOOLEAN :
         /\ Step("page", status_ok)
         /\ html' = IF status_ok THEN PrPages[remoteHead].html ELSE html
         /\ links' = IF status_ok
                     THEN extract_nightly_links_from_html(PrPages[remoteHead].html)
                     ELSE links
         /\ pc' = "select"
    /\ UNCHANGED << env, history, body, versionFile, staging, installedBuild, local,
                    installed, latest, assets, asset, outcome >>

\* lynks: the two RuntimeErrors, then download_url = links[target_filename]
SelectLink ==
    /\ pc = "select"
    /\ IF links = EmptyDict \/ asset.name \notin DOMAIN links
       THEN /\ Step("resolve", FALSE)
            /\ Raise("AssetNotFound")
            /\ UNCHANGED asset
       ELSE /\ Step("resolve", TRUE)
            /\ asset' = [asset EXCEPT !.url = links[asset.name]]
            /\ pc' = "check"
            /\ UNCHANGED outcome
    /\ UNCHANGED << env, history, pages, versionFile, staging, installedBuild, local,
                    installed, latest, assets, links >>

\* the build the remote serves at the selected asset's URL right now: a
\* release asset URL and a PR artifact URL name one build, the nightly URL
\* serves the build of the branch head
BuildServed ==
    CASE variant \in Tagged -> latest
      [] variant \in Nightly -> Ident(remoteHead)
      [] OTHER -> asset.url

\* Download without raise_for_status(): an error response is saved as the file
Download_NoRaise ==
    /\ pc = "download"
    /\ \E status_ok \in BOOLEAN :
         /\ Step("download", status_ok)
         /\ staging' = write_file(makedirs(staging),
                [name |-> asset.name, build |-> BuildServed, whole |-> status_ok])
         /\ pc' = "extract"
    /\ UNCHANGED << env, history, pages, versionFile, installedBuild, local, installed,
                    latest, assets, asset, links, outcome >>

\* download_asset / download_nightly / download_file
Download ==
    /\ pc = "download"
    /\ \E got \in {"ok", "status", "cut"} :
         CASE got = "ok" ->
                /\ Step("download", TRUE)
                /\ staging' = write_file(makedirs(staging),
                       [name |-> asset.name, build |-> BuildServed, whole |-> TRUE])
                /\ pc' = "extract"
                /\ UNCHANGED outcome
           [] got = "status" ->
                \* raise_for_status(): the file is not opened
                /\ Step("download", FALSE)
                /\ staging' = makedirs(staging)
                /\ Raise("Transport")
           [] OTHER ->
                \* the connection breaks while the chunks are written
                /\ Step("download", FALSE)
                /\ staging' = write_file(makedirs(staging),
                       [name |-> asset.name, build |-> BuildServed, whole |-> FALSE])
                /\ Raise("Transport")
    /\ UNCHANGED << env, history, pages, versionFile, installedBuild, local, installed,
                    latest, assets, asset, links >>

\* the file download returned (zip_path)
ZipFile == CHOOSE f \in staging.files : f.name = asset.name

\* extract_zip with the record written before the archive is opened
extract_zip_SavesFirst ==
    /\ pc = "extract"
    /\ versionFile' = [kind |-> "json",
                       data |-> save_local_version(variant, RemoteIdentifier)]
    /\ \E is_zip \in BOOLEAN :
         IF is_zip
         THEN /\ Step("extract", TRUE)
              /\ installedBuild' = ZipFile.build
              /\ pc' = "save"
              /\ UNCHANGED outcome
         ELSE /\ Step("extract", FALSE)
              /\ Raise("Extract")
              /\ UNCHANGED installedBuild
    /\ UNCHANGED << env, history, pages, staging, local, installed, latest,
                    assets, asset, links >>

\* extract_zip(zip_path): zipfile.ZipFile raises on what is not a zip archive
extract_zip ==
    /\ pc = "extract"
    /\ \E is_zip \in BOOLEAN :
         IF is_zip
         THEN /\ Step("extract", TRUE)
              /\ installedBuild' = ZipFile.build
              /\ pc' = "save"
              /\ UNCHANGED outcome
         ELSE /\ Step("extract", FALSE)
              /\ Raise("Extract")
              /\ UNCHANGED installedBuild
    /\ UNCHANGED << env, history, pages, versionFile, staging, local, installed, latest,
                    assets, asset, links >>

\* save_local_version(latest) / save_local_version(download_url)
SaveVersion ==
    /\ pc = "save"
    /\ Step("save", TRUE)
    /\ versionFile' = [kind |-> "json",
                       data |-> save_local_version(variant, RemoteIdentifier)]
    /\ pc' = "clear"
    /\ UNCHANGED << env, history, pages, staging, installedBuild, local, installed,
                    latest, assets, asset, links, outcome >>

\* clear_downloads() at the end of an update
clear_downloads ==
    /\ pc = "clear"
    /\ Step("clear", TRUE)
    /\ staging' = rmtree(staging)
    /\ Return("UPDATED")
    /\ UNCHANGED << env, history, pages, versionFile, installedBuild, local, installed,
                    latest, assets, asset, links >>

\* the script is started again on the same installation
StartRun ==
    /\ pc = "done"
    /\ runs < MaxRuns
    /\ runs' = runs + 1
    /\ prev' = [kind |-> outcome.kind, id |-> RemoteIdentifier, versionFile |-> versionFile]
    /\ atStart' = versionFile
    /\ pc' = FirstPc(variant)
    /\ local' = NoDict
    /\ installed' = None
    /\ latest' = None
    /\ assets' = <<>>
    /\ asset' = NoAsset
    /\ links' = EmptyDict
    /\ body' = ""
    /\ html' = ""
    /\ outcome' = NoOutcome
    /\ log' = <<>>
    /\ UNCHANGED << env, versionFile, staging, installedBuild >>

\* the remote source publishes: a new release, a new commit with its nightly
\* build, or an edited pull request
RemoteAdvance ==
    /\ advances < MaxAdvance
    /\ advances' = advances + 1
    /\ IF variant = "lynks"
       THEN remoteHead' \in (1..Len(PrPages)) \ {remoteHead}
       ELSE remoteHead' = remoteHead + 1
    /\ UNCHANGED << variant, platform, remoteAssets, history, pages, versionFile, staging,
                    installedBuild, pc, local, installed, latest, assets, asset,
                    links, outcome, log >>

Next ==
    \/ GetOsKey
    \/ load_local_version
    \/ QueryRemote
    \/ Compare
    \/ ResolveAsset
    \/ FetchBody
    \/ FetchHtml
    \/ SelectLink
    \/ Download
    \/ extract_zip
    \/ SaveVersion
    \/ clear_downloads
    \/ StartRun
    \/ RemoteAdvance

Spec == Init /\ [][Next]_vars

(***************************************************************************)
(* The tagged-release scripts on a fresh installation, over every release  *)
(* asset list of up to MaxAssets of the names below, in every order.       *)
(***************************************************************************)
\* assets in one release
MaxAssets == 3

AssetNames ==
    {"pkg-Linux.zip", "PKG-LINUX.ZIP", "pkg-Linux.zip.sig", "pkg-linux-old.zip",
     "Linux-Old-pkg.ZIP", "pkg-Win64.zip"}

AllAssetLists ==
    {l \in UNION {[1..k -> AssetNames] : k \in 0..MaxAssets} :
       \A i, j \in DOMAIN l : i # j => l[i] # l[j]}

InitAssets ==
    /\ variant \in Tagged
    /\ platform \in Platforms
    /\ versionFile = [kind |-> "absent", data |-> EmptyDict]
    /\ staging = NoFiles
    /\ installedBuild = None
    /\ remoteHead = 1
    /\ remoteAssets \in AllAssetLists
    /\ advances = 0
    /\ pc = FirstPc(variant)
    /\ local = NoDict
    /\ installed = None
    /\ latest = None
    /\ assets = <<>>
    /\ asset = NoAsset
    /\ links = EmptyDict
    /\ body = ""
    /\ html = ""
    /\ outcome = NoOutcome
    /\ log = <<>>
    /\ runs = 1
    /\ atStart = versionFile
    /\ prev = NoPrev

NextAssets ==
    \/ load_local_version
    \/ QueryRemote
    \/ Compare
    \/ ResolveAsset
    \/ Download
    \/ extract_zip
    \/ SaveVersion
    \/ clear_downloads

SpecAssets == InitAssets /\ [][NextAssets]_vars

(***************************************************************************)
(* What a run did, read off its log.                                       *)
(***************************************************************************)
Did(op, ok) == \E i \in DOMAIN log : log[i] = [op |-> op, ok |-> ok]
Happened(op) == \E i \in DOMAIN log : log[i].op = op

\* the run has obtained the remote identifier it compares
Obtained == RemoteIdentifier \notin {None, ""}

\* the identifier a version.json holds for this script, None when it has none
StoredId(vf) == IF vf.kind = "json" THEN DictGet(vf.data, IdKey(variant)) ELSE None

Finished == pc = "done"
Failed == pc = "done" /\ outcome.kind = "FAILED"

(***************************************************************************)
(* C1.  A run that fails leaves version.json exactly as it found it, and   *)
(* version.json is written only after extract_zip has returned without an  *)
(* error in the same run.                                                  *)
(***************************************************************************)
C1_FailedRunKeepsVersion ==
    /\ Failed => versionFile = atStart
    /\ \A i \in DOMAIN log :
         log[i].op = "save" =>
           \E j \in 1..(i - 1) : log[j] = [op |-> "extract", ok |-> TRUE]

\* a run that downloaded, failed to extract, and had a record to lose
C1_Witness ==
    /\ Failed
    /\ outcome.error = "Extract"
    /\ Did("download", TRUE)
    /\ StoredId(versionFile) # None

(***************************************************************************)
(* C2.  When the record's identifier equals the identifier the run got     *)
(* from the remote source, the run downloads nothing, extracts nothing and *)
(* does not write version.json.                                            *)
(***************************************************************************)
C2_EqualIdentifierNoFetch ==
    (Obtained /\ StoredId(atStart) # None /\ StoredId(atStart) = RemoteIdentifier)
      => /\ ~Happened("download")
         /\ ~Happened("extract")
         /\ ~Happened("save")
         /\ versionFile = atStart

\* a finished run that found its record equal to the remote identifier
C2_Witness ==
    /\ Finished
    /\ outcome.kind = "UP_TO_DATE"
    /\ Obtained
    /\ StoredId(atStart) = RemoteIdentifier

(***************************************************************************)
(* C7.  After a run that installed identifier X, a following run that gets *)
(* X from the remote source again is a no-op: nothing downloaded, nothing  *)
(* extracted, version.json as the first run wrote it, ending up to date.   *)
(***************************************************************************)
C7_RepeatedRunIsNoOp ==
    (prev.kind = "UPDATED" /\ Obtained /\ RemoteIdentifier = prev.id)
      => /\ ~Happened("download")
         /\ ~Happened("extract")
         /\ ~Happened("save")
         /\ versionFile = prev.versionFile
         /\ StoredId(versionFile) = prev.id
         /\ Finished => outcome.kind = "UP_TO_DATE"

\* the second run ended, up to date with what the first run installed
C7_Witness ==
    /\ prev.kind = "UPDATED"
    /\ Finished
    /\ outcome.kind = "UP_TO_DATE"
    /\ RemoteIdentifier = prev.id

(***************************************************************************)
(* C3.  At the end of every run that ends successfully, update or no-op,   *)
(* the downloads directory does not exist or is empty.                     *)
(***************************************************************************)
C3_StagingEmptyAfterSuccess ==
    (Finished /\ outcome.kind \in {"UP_TO_DATE", "UPDATED"})
      => (~staging.exists \/ staging.files = {})

(***************************************************************************)
(* C4.  On a platform outside the OS map the run fails with the            *)
(* unsupported-OS error before any call to the remote source.              *)
(***************************************************************************)
RemoteCalls == {"query", "body", "page", "download"}

C4_UnsupportedOsFailsFirst ==
    (/\ platform \notin {"windows", "linux", "darwin"}
     /\ (atStart.kind = "absent" \/ StoredId(atStart) # None))
      => /\ \A i \in DOMAIN log : log[i].op \notin RemoteCalls
         /\ Finished => (outcome.kind = "FAILED" /\ outcome.error = "UnsupportedOS")

(***************************************************************************)
(* C5.  Whenever version.json holds an identifier (and the run is not      *)
(* between extract_zip and save_local_version), it is the identifier of    *)
(* the build last extracted into the installation directory.               *)
(***************************************************************************)
C5_RecordIsExtractedBuild ==
    (StoredId(versionFile) # None /\ pc # "save")
      => StoredId(versionFile) = installedBuild

(***************************************************************************)
(* C6.  As claimed: a non-success status on any remote call ends the run   *)
(* at that step, in the failed state.                                      *)
(***************************************************************************)
FailedCallAt(i) == log[i].op \in RemoteCalls /\ ~log[i].ok

C6_EveryFailedCallAborts ==
    \A i \in DOMAIN log : FailedCallAt(i) => (i = Len(log) /\ Failed)

(***************************************************************************)
(* C6, amended.  A non-success status on the release or commit query or on *)
(* the asset download ends the run at that step, failed.  In the pull-     *)
(* request script the two fetches are caught: a failed description fetch   *)
(* is followed by the page fetch, a failed page fetch by no further        *)
(* pipeline step, only by the no-links error that fails the run.           *)
(***************************************************************************)
C6_FailedCallAbortsExceptCaught ==
    \A i \in DOMAIN log :
      FailedCallAt(i) =>
        CASE log[i].op = "body" ->
               i < Len(log) => log[i + 1].op = "page"
          [] log[i].op = "page" ->
               /\ \A j \in DOMAIN log : j > i => log[j] = [op |-> "resolve", ok |-> FALSE]
               /\ Finished => outcome = [kind |-> "FAILED", error |-> "AssetNotFound"]
          [] OTHER ->
               i = Len(log) /\ Failed /\ outcome.error = "Transport"

\* the description fetch failed and the run still installed from the page
C6_Witness ==
    /\ variant = "lynks"
    /\ Did("body", FALSE)
    /\ Did("page", TRUE)
    /\ Finished
    /\ outcome.kind = "UPDATED"

(***************************************************************************)
(* C9.  Pull-request script: the page is fetched exactly when the          *)
(* description yields no matching link; a matching link for the OS in the  *)
(* description is the resolved URL, with no page fetch; without one, when  *)
(* the page holds the OS file name followed within the window by an href   *)
(* to nightly.link, the resolved URL is such an href.                      *)
(***************************************************************************)
\* the hrefs that follow an occurrence of name within the window in the page
PageHrefsFor(name) ==
    LET low == Lower(html)
    IN {FirstHref(html, low, j + Len(name)).url :
          j \in {k \in 1..Len(html) : /\ StartsAt(low, k, name)
                                      /\ FirstHref(html, low, k + Len(name)).ok}}

C9_PageIffNoMarkdownLink ==
    (variant = "lynks" /\ Happened("resolve"))
      => (Happened("page") <=> extract_markdown_links_from_body(body) = EmptyDict)

C9_MarkdownLinkWins ==
    (variant = "lynks" /\ Happened("resolve")
       /\ asset.name \in DOMAIN extract_markdown_links_from_body(body))
      => /\ ~Happened("page")
         /\ Did("resolve", TRUE)
         /\ asset.url = extract_markdown_links_from_body(body)[asset.name]

C9_PageHrefResolves ==
    (variant = "lynks" /\ Happened("resolve")
       /\ Did("body", TRUE)
       /\ extract_markdown_links_from_body(body) = EmptyDict
       /\ Did("page", TRUE)
       /\ PageHrefsFor(asset.name) # {})
      => /\ Did("resolve", TRUE)
         /\ asset.url \in PageHrefsFor(asset.name)

C9_LinkResolution ==
    /\ C9_PageIffNoMarkdownLink
    /\ C9_MarkdownLinkWins
    /\ C9_PageHrefResolves

(***************************************************************************)
(* C10.  As claimed: in every script asset resolution comes after the      *)
(* comparison and only when it found a difference, and no run whose record *)
(* equals the remote identifier fails.                                     *)
(***************************************************************************)
ResolveOps == {"body", "page", "resolve"}

CheckedUnequalBefore(i) ==
    \E j \in 1..(i - 1) : log[j] = [op |-> "check", ok |-> FALSE]

NoFailureWhenEqual ==
    ~(Failed /\ Obtained /\ StoredId(atStart) # None
        /\ StoredId(atStart) = RemoteIdentifier)

C10_CheckBeforeResolve ==
    /\ \A i \in DOMAIN log : log[i].op \in ResolveOps => CheckedUnequalBefore(i)
    /\ NoFailureWhenEqual

(***************************************************************************)
(* C10, amended.  In the tagged-release and nightly scripts resolution     *)
(* comes after a comparison that found a difference.  In the pull-request  *)
(* script resolution comes first (the resolved URL is the identifier) and  *)
(* the comparison follows it.  In every script the download comes after a  *)
(* comparison that found a difference, and no run whose record equals the  *)
(* remote identifier fails.                                                *)
(***************************************************************************)
C10_OrderPerScript ==
    /\ \A i \in DOMAIN log :
         /\ (log[i].op \in ResolveOps /\ variant # "lynks") => CheckedUnequalBefore(i)
         /\ (log[i].op \in ResolveOps /\ variant = "lynks")
              => \A j \in 1..(i - 1) : log[j].op # "check"
         /\ (log[i].op = "check" /\ variant = "lynks")
              => \E j \in 1..(i - 1) : log[j] = [op |-> "resolve", ok |-> TRUE]
         /\ log[i].op \in {"download", "extract", "save"} => CheckedUnequalBefore(i)
    /\ NoFailureWhenEqual

\* an update by the pull-request script: resolved, compared, then fetched
C10_Witness ==
    /\ variant = "lynks"
    /\ Finished
    /\ outcome.kind = "UPDATED"
    /\ StoredId(atStart) # None

(***************************************************************************)
(* C8.  As claimed: tagged-release scripts on linux, a list with exactly   *)
(* one name ending in "-Linux.zip": that asset is selected.                *)
(***************************************************************************)
\* the one asset of the release whose name satisfies Hit, when there is one
Only(hits) == CHOOSE i \in hits : TRUE

C8_UniqueLinuxZipSelected ==
    LET hits == {i \in DOMAIN assets : EndsWith(assets[i].name, "-Linux.zip")}
    IN (variant \in Tagged /\ platform = "linux" /\ Happened("resolve")
          /\ Cardinality(hits) = 1)
         => (Did("resolve", TRUE) /\ asset = assets[Only(hits)])

(***************************************************************************)
(* C8, amended.  2ship on linux: a list with exactly one name that ends in *)
(* "-linux.zip" compared without case: that asset is selected, wherever it *)
(* stands in the list and whatever the other names are.  Spaghettikart on  *)
(* linux selects by its own rule: exactly one name that contains           *)
(* "linux-old" and ends in ".zip", without case, is selected.              *)
(***************************************************************************)
C8_UniqueMatchSelected ==
    LET low(i) == Lower(assets[i].name)
        hits == IF variant = "ship2"
                THEN {i \in DOMAIN assets : EndsWith(low(i), "-linux.zip")}
                ELSE {i \in DOMAIN assets :
                        Contains(low(i), "linux-old") /\ EndsWith(low(i), ".zip")}
    IN (variant \in Tagged /\ platform = "linux" /\ Happened("resolve")
          /\ Cardinality(hits) = 1)
         => (Did("resolve", TRUE) /\ asset = assets[Only(hits)])

\* 2ship picked the last of three assets, past two other linux-named files
C8_Witness ==
    /\ variant = "ship2"
    /\ platform = "linux"
    /\ Did("resolve", TRUE)
    /\ Len(assets) = 3
    /\ asset = assets[3]
    /\ Contains(Lower(assets[1].name), "linux")
    /\ Contains(Lower(assets[2].name), "linux")

====
